---- MODULE Spec2Model ----
(***************************************************************************)
(* Dice To-Do (src/App.js): the App component as a state machine.          *)
(*                                                                         *)
(* State: the component's useState cells and refs, the JavaScript timer    *)
(* table, the AsyncStorage backend (stored value plus the getItem/setItem  *)
(* calls in flight) and the wall clock read by Date.now().                 *)
(* Operations: the handlers addTask, toggleDone, deleteTask, rollDice, the *)
(* timer callbacks and the completions of the asynchronous storage calls.  *)
(* The handlers are the interface the presentation layer calls; their      *)
(* arguments are drawn from small sets.                                    *)
(*                                                                         *)
(* A JavaScript null is the empty sequence and a present value v is <<v>>, *)
(* so that "null or a task" is one comparable type.                        *)
(***************************************************************************)
EXTENDS Integers, Sequences, FiniteSets, TLC

\* ---------------------------------------------------------------- bounds
MaxOps == 3          \* handler calls (addTask, toggleDone, deleteTask, rollDice, Cancel) and the unmount
MaxWrites == 2       \* setItem calls issued by the mount effect and by handler calls

VARIABLES
  tasks,         \* useState([])            App.js:58
  selectedTask,  \* useState(null)          App.js:62
  tempSelected,  \* useState(null)          App.js:63
  rolling,       \* useState(false)         App.js:64
  error,         \* useState("")            App.js:65
  intervalRef,   \* useRef(null), 0 is null App.js:67
  timeoutRef,    \* useRef(null), 0 is null App.js:68
  timers,        \* the runtime's pending setInterval/setTimeout entries
  now,           \* the value Date.now() returns
  mounted,       \* the component is mounted (its effect cleanup has not run)
  hasBackend,    \* AsyncStorage && typeof AsyncStorage.getItem/setItem === "function"
  storage,       \* the value stored under STORAGE_KEY
  writes,        \* setItem calls issued and not yet completed, oldest first
  loadState,     \* loadTasks: "reading" (getItem in flight), "resolved", "done"
  loadRaw,       \* the local raw of loadTasks: what safeGetItem returned
  uncaught,      \* an exception escaped a handler or an async function
  ops,           \* the number of handler calls counted against MaxOps
  issued,        \* the number of setItem calls counted against MaxWrites
  last           \* history: the handler call that made the last step, if one did

vars == <<tasks, selectedTask, tempSelected, rolling, error,
          intervalRef, timeoutRef, timers, now, mounted, hasBackend, storage, writes,
          loadState, loadRaw, uncaught, ops, issued, last>>

rollVars == <<selectedTask, tempSelected, rolling, intervalRef, timeoutRef, timers>>
backendVars == <<hasBackend, storage, loadState, loadRaw>>

\* ------------------------------------------------------------ plain data
Null == <<>>
Some(v) == <<v>>

Priorities == {"High", "Medium", "Low"}

Whitespace == {" "}

\* The texts the name field is given: empty, blank, and one with a letter
\* between blanks.
Names == { <<>>, <<" ", " ">>, <<" ", "a", " ">> }

NoError == ""
NameError == "Please enter a task name"
PoolError == "No incomplete tasks to pick from. Add some!"

\* Number.prototype.toString: the decimal digits of n, most significant first.
RECURSIVE DecimalString(_)
DecimalString(n) ==
  IF n < 10 THEN <<n>> ELSE DecimalString(n \div 10) \o <<n % 10>>

\* String.prototype.trim: leading and trailing whitespace removed.
RECURSIVE TrimStart(_)
TrimStart(s) ==
  IF Len(s) > 0 /\ Head(s) \in Whitespace THEN TrimStart(Tail(s)) ELSE s

RECURSIVE TrimEnd(_)
TrimEnd(s) ==
  IF Len(s) > 0 /\ s[Len(s)] \in Whitespace
  THEN TrimEnd(SubSeq(s, 1, Len(s) - 1))
  ELSE s

Trim(s) == TrimEnd(TrimStart(s))

IdsOf(list) == { list[i].id : i \in 1..Len(list) }

CountId(list, id) == Cardinality({ i \in 1..Len(list) : list[i].id = id })

\* An id of a task that is in the list no more.
GoneId == DecimalString(10)

\* The ids toggleDone and deleteTask may be called with: those of the tasks
\* of the list, and one no task of the list has.
Ids(list) == IdsOf(list) \cup {GoneId}

\* What Date.now() may read when the reading before was c: the same
\* millisecond, or a later one.
Readings(c) == {c, c + 1}

\* ----------------------------------------------------- JSON and the store
\* A faulty variant: the text leaves out the task's priority and writes the default.
StringifyTaskDefaultPriority(t) ==
  << <<"id", t.id>>, <<"name", t.name>>, <<"priority", "Medium">>,
     <<"done", t.done>>, <<"createdAt", t.createdAt>> >>

\* JSON.stringify of one task: its own properties in creation order.
StringifyTask(t) ==
  << <<"id", t.id>>, <<"name", t.name>>, <<"priority", t.priority>>,
     <<"done", t.done>>, <<"createdAt", t.createdAt>> >>

\* JSON.stringify(tasks): the text of a JSON array.
Stringify(list) ==
  [kind |-> "json", top |-> "array",
   items |-> [i \in 1..Len(list) |-> StringifyTask(list[i])]]

Member(obj, key) ==
  LET i == CHOOSE i \in 1..Len(obj) : obj[i][1] = key IN obj[i][2]

ParseObject(obj) ==
  [id |-> Member(obj, "id"), name |-> Member(obj, "name"),
   priority |-> Member(obj, "priority"), done |-> Member(obj, "done"),
   createdAt |-> Member(obj, "createdAt")]

\* JSON.parse(raw): throws on text that is not JSON; an array text gives an
\* array of objects, any other JSON text a value that is not an array.
JsonParse(raw) ==
  [throws |-> raw.kind # "json",
   isArray |-> raw.kind = "json" /\ raw.top = "array",
   value |-> IF raw.kind = "json" /\ raw.top = "array"
             THEN [i \in 1..Len(raw.items) |-> ParseObject(raw.items[i])]
             ELSE <<>>]

\* What getItem can hand back besides the text of an array: nothing, text
\* that is not JSON, the JSON text of an object.
Absent == [kind |-> "absent", top |-> "none", items |-> <<>>]
Garbage == [kind |-> "garbage", top |-> "none", items |-> <<>>]
ObjectText == [kind |-> "json", top |-> "object", items |-> <<>>]

\* if (raw): null and "" are falsy.
Truthy(raw) == raw.kind \notin {"absent", "empty"}

\* A list an earlier session saved.
EarlierTask ==
  [id |-> DecimalString(0), name |-> <<"a">>, priority |-> "High",
   done |-> FALSE, createdAt |-> 0]

\* The cell under STORAGE_KEY: its text, and as history the list a completed
\* setItem call wrote it from (Null: no such call wrote it) and whether that
\* call was issued before one that had completed earlier.
Stored(raw, from, stale) == [raw |-> raw, from |-> from, stale |-> stale]

\* A task record no addTask call made: its priority is none of the three.
ForeignTask ==
  [id |-> DecimalString(0), name |-> <<"a">>, priority |-> "Urgent",
   done |-> FALSE, createdAt |-> 0]

\* What the backend holds when the app starts: nothing, text no session of
\* the app wrote (not JSON, an object, an array with a record of another
\* make), or the list an earlier session saved.
InitialStorage ==
  { Stored(raw, Null, FALSE) :
      raw \in {Absent, Garbage, ObjectText, Stringify(<<ForeignTask>>)} }
    \cup { Stored(Stringify(<<EarlierTask>>), Some(<<EarlierTask>>), FALSE) }


\* --------------------------------------------------- the task operations
\* A faulty variant: the name is tested without the trim (!name alone).
IsBlankNameUntrimmed(n) == Len(n) = 0

\* !name || !name.trim()
IsBlankName(n) == Len(n) = 0 \/ Len(Trim(n)) = 0

\* The task literal of addTask; both Date.now() calls read the clock c.
NewTask(n, p, c) ==
  [id |-> DecimalString(c), name |-> Trim(n), priority |-> p,
   done |-> FALSE, createdAt |-> c]

\* A faulty variant: the new task is put at the end.
TasksAfterAppend(prev, t) == prev \o <<t>>

\* (prev) => [newTask, ...prev]
TasksAfterAdd(prev, t) == <<t>> \o prev

\* A faulty variant: the matching task is marked done (done: true) and not flipped.
TasksAfterMarkDone(prev, id) ==
  [i \in 1..Len(prev) |->
     IF prev[i].id = id THEN [prev[i] EXCEPT !.done = TRUE] ELSE prev[i]]

\* prev.map((t) => (t.id === id ? { ...t, done: !t.done } : t))
TasksAfterToggle(prev, id) ==
  [i \in 1..Len(prev) |->
     IF prev[i].id = id THEN [prev[i] EXCEPT !.done = ~prev[i].done] ELSE prev[i]]

\* A faulty variant: the filter keeps the matching tasks (t.id === id).
TasksAfterKeepOnly(prev, id) == SelectSeq(prev, LAMBDA t : t.id = id)

\* prev.filter((t) => t.id !== id)
TasksAfterDelete(prev, id) == SelectSeq(prev, LAMBDA t : t.id # id)

\* safeSetItem(STORAGE_KEY, JSON.stringify(tasks)) for the list the effect
\* closes over: one more setItem call in flight, none without AsyncStorage.
\* from is history: the list the text was made of.
SaveTasks(list) ==
  IF hasBackend
  THEN Append(writes, [value |-> Stringify(list), from |-> list, stale |-> FALSE])
  ELSE writes

CanSave == hasBackend => issued < MaxWrites

Issued == IF hasBackend THEN issued + 1 ELSE issued

\* A faulty variant: loadTasks without its try/catch and without the Array.isArray
\* test: a JSON.parse failure leaves the function, a value that is no array
\* is set.
LoadOutcomeUnguarded(raw) ==
  IF ~Truthy(raw) THEN [set |-> FALSE, value |-> <<>>, threw |-> FALSE]
  ELSE LET parsed == JsonParse(raw) IN
       IF parsed.throws THEN [set |-> FALSE, value |-> <<>>, threw |-> TRUE]
       ELSE [set |-> TRUE, value |-> parsed.value, threw |-> FALSE]

\* loadTasks after safeGetItem returned raw: whether setTasks is called,
\* with what, and whether an exception leaves the function.
LoadOutcome(raw) ==
  IF ~Truthy(raw) THEN [set |-> FALSE, value |-> <<>>, threw |-> FALSE]
  ELSE LET parsed == JsonParse(raw) IN
       IF parsed.throws THEN [set |-> FALSE, value |-> <<>>, threw |-> FALSE]
       ELSE IF parsed.isArray
            THEN [set |-> TRUE, value |-> parsed.value, threw |-> FALSE]
            ELSE [set |-> FALSE, value |-> <<>>, threw |-> FALSE]

\* ------------------------------------------------------------- the dice
\* A faulty variant: the pool is the whole list, completed tasks included.
AvailableUnfiltered(list) == list

\* tasks.filter((t) => !t.done)
Available(list) == SelectSeq(list, LAMBDA t : ~t.done)

\* t.priority === "High" ? 3 : t.priority === "Medium" ? 2 : 1
Weight(t) == IF t.priority = "High" THEN 3 ELSE IF t.priority = "Medium" THEN 2 ELSE 1

\* The expanded array: each task's id pushed Weight times, in pool order.
RECURSIVE Expanded(_)
Expanded(pool) ==
  IF Len(pool) = 0 THEN <<>>
  ELSE [i \in 1..Weight(Head(pool)) |-> Head(pool).id] \o Expanded(Tail(pool))

\* pool.find((p) => p.id === id) || null
Find(pool, id) ==
  IF \E i \in 1..Len(pool) : pool[i].id = id
  THEN Some(pool[CHOOSE i \in 1..Len(pool) :
                   /\ pool[i].id = id
                   /\ \A j \in 1..(i - 1) : pool[j].id # id])
  ELSE Null

\* The values Math.floor(Math.random() * n) takes.
Draws(n) == 0..(n - 1)

\* pickWeightedTask(pool) when the random index drawn is r.
PickWeightedTask(pool, r) ==
  IF Len(pool) = 0 THEN Null ELSE Find(pool, Expanded(pool)[r + 1])

\* The handle setInterval/setTimeout returns: one no pending timer has and
\* no ref holds (the runtime never hands out a handle twice).
FreshHandle(used) ==
  CHOOSE n \in 1..(Cardinality(used) + 1) :
    n \notin used /\ \A m \in 1..(n - 1) : m \in used

\* A faulty variant: the clear calls drop nothing.
ClearedNothing(pending, h) == pending

\* clearInterval(h) / clearTimeout(h): the pending timer with handle h, if
\* any, is dropped; if (ref.current) skips the null handle 0.
Cleared(pending, h) == { t \in pending : h = 0 \/ t.id # h }

\* disabled={rolling} on the Roll Dice button.
RollButtonEnabled == ~rolling

\* History of a handler call: its name, its argument (the name typed for
\* addTask, the id for toggleDone and deleteTask) and whether it took effect
\* (addTask: a task was created; toggleDone, deleteTask: the id was in the
\* list; rollDice: timers were started).
Did(op, arg, flag) == [op |-> op, arg |-> arg, flag |-> flag]

\* The last step was no handler call.
NoCall == Did("", Null, FALSE)

\* The event loop is between two tasks: no continuation is queued.  Once
\* safeGetItem has its value, the continuation of loadTasks behind its await
\* is a microtask: it runs before any handler, timer callback or completion
\* of another storage call.
BetweenTasks == loadState # "resolved"

\* ------------------------------------------------------------------ Init
\* The component after its first render and its two mount effects:
\* loadTasks() has called getItem and saveTasks() has called setItem with
\* the text of the initial empty list.
Init ==
  /\ tasks = <<>>
  /\ selectedTask = Null
  /\ tempSelected = Null
  /\ rolling = FALSE
  /\ error = NoError
  /\ intervalRef = 0
  /\ timeoutRef = 0
  /\ timers = {}
  /\ now = 1
  /\ mounted = TRUE
  /\ hasBackend \in BOOLEAN
  /\ storage \in IF hasBackend THEN InitialStorage ELSE {Stored(Absent, Null, FALSE)}
  /\ writes = IF hasBackend
              THEN <<[value |-> Stringify(<<>>), from |-> <<>>, stale |-> FALSE]>>
              ELSE <<>>
  /\ loadState = IF hasBackend THEN "reading" ELSE "resolved"
  /\ loadRaw = Stored(Absent, Null, FALSE)
  /\ uncaught = FALSE
  /\ ops = 0
  /\ issued = IF hasBackend THEN 1 ELSE 0
  /\ last = NoCall

\* ------------------------------------------------------------- TaskStore
\* addTask when the form cells name and priority hold n and p.  Only
\* addTask, the form's setters and resetForm touch the two cells, so the
\* model keeps them as the handler's inputs and not as state.  Date.now() is
\* read once a name is there, and reads no earlier than it did before.
AddTask(n, p) ==
  /\ BetweenTasks
  /\ mounted
  /\ ops < MaxOps
  /\ UNCHANGED mounted
  /\ ops' = ops + 1
  /\ IF IsBlankName(n)
     THEN /\ error' = NameError
          /\ last' = Did("addTask", Some(n), FALSE)
          /\ UNCHANGED <<tasks, writes, issued, now>>
     ELSE /\ CanSave
          /\ \E c \in Readings(now) :
               LET newTask == NewTask(n, p, c) IN
                 /\ now' = c
                 /\ tasks' = TasksAfterAdd(tasks, newTask)
                 /\ writes' = SaveTasks(tasks')
          /\ issued' = Issued
          /\ last' = Did("addTask", Some(n), TRUE)
          /\ error' = NoError
  /\ UNCHANGED <<rollVars, backendVars, uncaught>>

ToggleDone(id) ==
  /\ BetweenTasks
  /\ mounted
  /\ ops < MaxOps
  /\ UNCHANGED mounted
  /\ CanSave
  /\ ops' = ops + 1
  /\ issued' = Issued
  /\ tasks' = TasksAfterToggle(tasks, id)
  /\ writes' = SaveTasks(tasks')
  /\ selectedTask' =
       IF selectedTask # Null /\ selectedTask[1].id = id THEN Null ELSE selectedTask
  /\ last' = Did("toggleDone", Some(id), id \in IdsOf(tasks))
  /\ UNCHANGED <<tempSelected, rolling, intervalRef, timeoutRef, timers,
                 error, now, backendVars, uncaught>>

\* deleteTask shows the alert and the user answers it.  "Delete" runs
\* setTasks with an updater, which filters the list of the moment of the
\* answer, so the question and the answer are one step; "Cancel" changes
\* nothing.
DeleteTask(id, answer) ==
  /\ BetweenTasks
  /\ mounted
  /\ ops < MaxOps
  /\ UNCHANGED mounted
  /\ ops' = ops + 1
  /\ IF answer = "Delete"
     THEN /\ CanSave
          /\ issued' = Issued
          /\ tasks' = TasksAfterDelete(tasks, id)
          /\ writes' = SaveTasks(tasks')
     ELSE UNCHANGED <<tasks, writes, issued>>
  /\ last' = IF answer = "Delete"
             THEN Did("deleteTask", Some(id), id \in IdsOf(tasks))
             ELSE Did("deleteTask cancelled", Null, FALSE)
  /\ UNCHANGED <<rollVars, error, now, backendVars, uncaught>>

\* The Cancel button of the add-task form: setError("") and resetForm().
CancelForm ==
  /\ BetweenTasks
  /\ mounted
  /\ ops < MaxOps
  /\ UNCHANGED mounted
  /\ ops' = ops + 1
  /\ error' = NoError
  /\ last' = Did("cancelForm", Null, FALSE)
  /\ UNCHANGED <<tasks, rollVars, now, backendVars, writes, uncaught, issued>>

\* ----------------------------------------------------- storage backend
RemoveAt(s, i) == SubSeq(s, 1, i - 1) \o SubSeq(s, i + 1, Len(s))

\* getItem completes: safeGetItem returns the stored value.
GetItemReturns ==
  /\ UNCHANGED mounted
  /\ loadState = "reading"
  /\ loadState' = "resolved"
  /\ loadRaw' = storage
  /\ last' = NoCall
  /\ UNCHANGED <<tasks, rollVars, error, now, hasBackend, storage, writes,
                 uncaught, ops, issued>>

\* getItem rejects: safeGetItem catches and returns null.
GetItemFails ==
  /\ UNCHANGED mounted
  /\ loadState = "reading"
  /\ loadState' = "resolved"
  /\ loadRaw' = Stored(Absent, Null, FALSE)
  /\ last' = NoCall
  /\ UNCHANGED <<tasks, rollVars, error, now, hasBackend, storage, writes,
                 uncaught, ops, issued>>

\* loadTasks resumes after its await and returns; its local raw is no more.
\* A setTasks call on the unmounted component is dropped by React: no state
\* changes and no effect runs.
LoadTasks ==
  /\ loadState = "resolved"
  /\ UNCHANGED mounted
  /\ LET out == LoadOutcome(loadRaw.raw) IN
       /\ tasks' = IF out.set /\ mounted THEN out.value ELSE tasks
       /\ writes' = IF out.set /\ mounted THEN SaveTasks(tasks') ELSE writes
       /\ uncaught' = (uncaught \/ out.threw)
       /\ last' = NoCall
  /\ loadState' = "done"
  /\ loadRaw' = Stored(Absent, Null, FALSE)
  /\ UNCHANGED <<rollVars, error, now, hasBackend, storage, ops, issued>>

\* The i-th setItem call in flight completes and its text is stored.  The
\* backend is free to complete the calls in any order.  A call issued before
\* this one and still in flight now carries a list older than the stored one.
SetItemLands(i) ==
  /\ BetweenTasks
  /\ UNCHANGED mounted
  /\ i \in 1..Len(writes)
  /\ storage' = Stored(writes[i].value, Some(writes[i].from), writes[i].stale)
  /\ writes' = RemoveAt([j \in 1..Len(writes) |->
                           IF j < i THEN [writes[j] EXCEPT !.stale = TRUE]
                           ELSE writes[j]], i)
  /\ last' = NoCall
  /\ UNCHANGED <<tasks, rollVars, error, now, hasBackend, loadState, loadRaw,
                 uncaught, ops, issued>>

\* A faulty variant: safeSetItem without its try/catch.
RejectionUncaught == TRUE

\* Whether a rejection of setItem leaves safeSetItem and saveTasks as an
\* exception: the catch of safeSetItem takes it.
RejectionEscapes == FALSE

\* The i-th setItem call rejects: safeSetItem catches, nothing is stored.
SetItemFails(i) ==
  /\ BetweenTasks
  /\ UNCHANGED mounted
  /\ i \in 1..Len(writes)
  /\ writes' = RemoveAt(writes, i)
  /\ uncaught' = (uncaught \/ RejectionEscapes)
  /\ last' = NoCall
  /\ UNCHANGED <<tasks, rollVars, error, now, backendVars, ops, issued>>

\* ------------------------------------------------------------- rollDice
\* tasksThen is history: the list rollDice read.
RollDice ==
  /\ BetweenTasks
  /\ mounted
  /\ ops < MaxOps
  /\ UNCHANGED mounted
  /\ ops' = ops + 1
  /\ LET available == Available(tasks) IN
     IF Len(available) = 0
     THEN /\ selectedTask' = Null
          /\ error' = PoolError
          /\ last' = Did("rollDice", Null, FALSE)
          /\ UNCHANGED <<tempSelected, rolling, intervalRef, timeoutRef, timers>>
     ELSE LET kept == Cleared(Cleared(timers, intervalRef), timeoutRef)
              held == { t.id : t \in kept } \cup {intervalRef, timeoutRef}
              ih == FreshHandle(held)
              th == FreshHandle(held \cup {ih})
          IN /\ selectedTask' = Null
             /\ error' = NoError
             /\ rolling' = TRUE
             /\ intervalRef' = ih
             /\ timeoutRef' = th
             /\ timers' = kept \cup
                  { [id |-> ih, kind |-> "interval", available |-> available,
                     tasksThen |-> tasks],
                    [id |-> th, kind |-> "timeout", available |-> available,
                     tasksThen |-> tasks] }
             /\ last' = Did("rollDice", Null, TRUE)
             /\ UNCHANGED tempSelected
  /\ UNCHANGED <<tasks, now, backendVars, writes, uncaught, issued>>

\* The interval callback of a pending preview timer runs.
PreviewTick(t) ==
  /\ BetweenTasks
  /\ UNCHANGED mounted
  /\ t \in timers
  /\ t.kind = "interval"
  /\ \E r \in Draws(Len(t.available)) :
       tempSelected' = IF mounted THEN Some(t.available[r + 1]) ELSE tempSelected
  /\ last' = NoCall
  /\ UNCHANGED <<tasks, selectedTask, rolling, intervalRef, timeoutRef, timers,
                 error, now, backendVars, writes, uncaught, ops, issued>>

\* The timeout callback of a pending settle timer runs (and is pending no
\* more).
Settle(t) ==
  /\ BetweenTasks
  /\ UNCHANGED mounted
  /\ t \in timers
  /\ t.kind = "timeout"
  /\ timers' = Cleared(timers \ {t}, intervalRef)
  /\ \E r \in Draws(Len(Expanded(t.available))) :
       selectedTask' = IF mounted THEN PickWeightedTask(t.available, r) ELSE selectedTask
  /\ tempSelected' = IF mounted THEN Null ELSE tempSelected
  /\ rolling' = IF mounted THEN FALSE ELSE rolling
  /\ last' = NoCall
  /\ UNCHANGED <<tasks, intervalRef, timeoutRef, error, now, backendVars,
                 writes, uncaught, ops, issued>>

\* --------------------------------------------------------------- unmount
\* A faulty variant: the cleanup clears the timeout and leaves the interval.
AfterCleanupTimeoutOnly(pending) == Cleared(pending, timeoutRef)

\* The cleanup of the mount effect: clearInterval and clearTimeout on the
\* handles the two refs hold.
AfterCleanup(pending) == Cleared(Cleared(pending, intervalRef), timeoutRef)

\* The component is unmounted: React runs the cleanup of the mount effect.
\* No state cell is set; the refs keep their handles.
Unmount ==
  /\ BetweenTasks
  /\ mounted
  /\ ops < MaxOps
  /\ ops' = ops + 1
  /\ mounted' = FALSE
  /\ timers' = AfterCleanup(timers)
  /\ last' = NoCall
  /\ UNCHANGED <<tasks, selectedTask, tempSelected, rolling, intervalRef,
                 timeoutRef, error, now, backendVars, writes, uncaught, issued>>

\* ------------------------------------------------------- specifications
Environment ==
  \/ GetItemReturns
  \/ GetItemFails
  \/ LoadTasks
  \/ \E i \in 1..Len(writes) : SetItemLands(i)
  \/ \E i \in 1..Len(writes) : SetItemFails(i)
  \/ \E t \in timers : PreviewTick(t)
  \/ \E t \in timers : Settle(t)

Store ==
  \/ \E n \in Names, p \in Priorities : AddTask(n, p)
  \/ \E id \in Ids(tasks) : ToggleDone(id)
  \/ \E id \in Ids(tasks), answer \in {"Cancel", "Delete"} : DeleteTask(id, answer)
  \/ CancelForm

\* The handlers as the interface of the core: rollDice may be called at any
\* time.
Next == Environment \/ Store \/ RollDice \/ Unmount

Spec == Init /\ [][Next]_vars

\* The handlers as the screen wires them: rollDice runs on a press of the
\* Roll Dice button, which is disabled while rolling.
NextApp == Environment \/ Store \/ (RollButtonEnabled /\ RollDice) \/ Unmount

SpecApp == Init /\ [][NextApp]_vars

\* The scheduling of the runtime: a pending timeout that is not cleared
\* runs, a storage call in flight completes or rejects, and loadTasks
\* resumes once getItem has.
SpecFair ==
  /\ Spec
  /\ WF_vars(\E t \in timers : Settle(t))
  /\ WF_vars(\E i \in 1..Len(writes) : SetItemLands(i) \/ SetItemFails(i))
  /\ WF_vars(GetItemReturns \/ GetItemFails)
  /\ WF_vars(LoadTasks)

\* A backend whose setItem calls all succeed: every call in flight completes
\* in the end (in any order), the getItem call returns or rejects, and
\* loadTasks resumes once it has.
EnvironmentReliable ==
  \/ GetItemReturns
  \/ GetItemFails
  \/ LoadTasks
  \/ \E i \in 1..Len(writes) : SetItemLands(i)
  \/ \E t \in timers : PreviewTick(t)
  \/ \E t \in timers : Settle(t)

NextReliable == EnvironmentReliable \/ Store \/ RollDice \/ Unmount

SpecReliable ==
  /\ Init
  /\ [][NextReliable]_vars
  /\ WF_vars(\E i \in 1..Len(writes) : SetItemLands(i))
  /\ WF_vars(GetItemReturns \/ GetItemFails)
  /\ WF_vars(LoadTasks)


\* ---------------------------------------------------------------- claims
\* What the claims say, stated apart from the operators above.
Incomplete(list) == { i \in 1..Len(list) : list[i].done = FALSE }

AllWhitespace(text) == \A i \in 1..Len(text) : text[i] = " "

SameButDone(a, b) ==
  /\ a.id = b.id
  /\ a.name = b.name
  /\ a.priority = b.priority
  /\ a.createdAt = b.createdAt

\* list without its k-th element.
Without(list, k) ==
  [i \in 1..(Len(list) - 1) |-> IF i < k THEN list[i] ELSE list[i + 1]]

ClaimedWeight(p) ==
  CASE p = "High" -> 3 [] p = "Medium" -> 2 [] p = "Low" -> 1 [] OTHER -> 0

RECURSIVE SumOfWeights(_)
SumOfWeights(pool) ==
  IF Len(pool) = 0 THEN 0
  ELSE ClaimedWeight(Head(pool).priority) + SumOfWeights(Tail(pool))

Called(op) == last'.op = op

\* The step in which loadTasks resumes after its await.
LoadCompletes == loadState = "resolved" /\ loadState' = "done"

\* The step in which the timeout callback of the pending timer t runs.
Settles(t) ==
  /\ t \in timers
  /\ t \notin timers'
  /\ t.kind = "timeout"
  /\ last' = NoCall
  /\ mounted' = mounted

\* C1: all tasks in the in-memory list have pairwise distinct ids.
C1_DistinctIds ==
  \A i, j \in 1..Len(tasks) : i # j => tasks[i].id # tasks[j].id

\* C2: a setItem call never completes after a call that was issued later
\* than it has completed, so the stored text never comes from a list older
\* than one already stored.
C2_WritesLandInOrder == ~storage.stale

PendingOf(kind) == { t \in timers : t.kind = kind }

\* C3: every call of rollDice drops every timer that was pending when it was
\* called (the timers of the earlier roll), and at most one preview interval
\* and one settle timeout are pending at any time.
C3_RollCancelsEarlier ==
  [][ /\ Called("rollDice") => timers \cap timers' = {}
      /\ Cardinality(PendingOf("interval")') <= 1
      /\ Cardinality(PendingOf("timeout")') <= 1 ]_vars

\* C4: a settling roll writes to selectedTask a task that was in the list
\* with done = FALSE when rollDice was called, the only such task if there
\* was exactly one; a call of rollDice on a list with no incomplete task
\* leaves selectedTask null and starts no timer.
C4_RollYieldsIncomplete ==
  [][ /\ \A t \in timers : Settles(t) =>
           /\ selectedTask' # Null
           /\ \E i \in Incomplete(t.tasksThen) : t.tasksThen[i] = selectedTask'[1]
           /\ \A i \in Incomplete(t.tasksThen) :
                Incomplete(t.tasksThen) = {i} => selectedTask' = Some(t.tasksThen[i])
      /\ (Called("rollDice") /\ Incomplete(tasks) = {}) =>
           /\ selectedTask' = Null
           /\ timers' = timers
           /\ intervalRef' = intervalRef
           /\ timeoutRef' = timeoutRef ]_vars

\* A roll settled on a pick out of two incomplete tasks.
C4_Witness ==
  /\ selectedTask # Null
  /\ ~rolling
  /\ Cardinality(Incomplete(tasks)) = 2
  /\ \E i \in Incomplete(tasks) : tasks[i] = selectedTask[1]

\* C5: for the pool of incomplete tasks, when it is not empty, the number of
\* draws for which pickWeightedTask returns a given task is that task's
\* weight (High 3, Medium 2, Low 1), the number of draws is the sum of the
\* weights, and no draw returns null.
C5_WeightedOutcomes ==
  LET pool == Available(tasks)
      draws == Draws(Len(Expanded(pool)))
  IN Len(pool) > 0 =>
       /\ Cardinality(draws) = SumOfWeights(pool)
       /\ \A r \in draws : PickWeightedTask(pool, r) # Null
       /\ \A i \in 1..Len(pool) :
            Cardinality({ r \in draws : PickWeightedTask(pool, r) = Some(pool[i]) })
              = ClaimedWeight(pool[i].priority)

\* C5 on the pools whose ids are pairwise distinct and whose priorities are
\* of the three.
C5_OnDistinctIds ==
  (C1_DistinctIds /\ \A i \in 1..Len(tasks) : tasks[i].priority \in Priorities)
    => C5_WeightedOutcomes

\* C6: addTask with an empty or whitespace-only name leaves the list as it
\* was, issues no save and sets the error.
C6_BlankNameRejected ==
  [][ (Called("addTask") /\ AllWhitespace(last'.arg[1])) =>
        /\ tasks' = tasks
        /\ writes' = writes
        /\ error' = NameError ]_vars

\* addTask was called with two blanks on a list that holds a task.
C6_Witness ==
  /\ last.op = "addTask"
  /\ last.arg = Some(<<" ", " ">>)
  /\ Len(tasks) > 0
  /\ error = NameError

\* C7: a confirmed deleteTask(X) on a list holding id X exactly once gives
\* the list without that element, one shorter, no element with id X, the
\* others as they were and in their order; with X not in the list, the list
\* is as it was.
C7_DeleteRemovesExactlyOne ==
  [][ Called("deleteTask") =>
        LET X == last'.arg[1] IN
          /\ CountId(tasks, X) = 1 =>
               /\ Len(tasks') = Len(tasks) - 1
               /\ \A i \in 1..Len(tasks') : tasks'[i].id # X
               /\ \E k \in 1..Len(tasks) : tasks[k].id = X /\ tasks' = Without(tasks, k)
          /\ CountId(tasks, X) = 0 => tasks' = tasks ]_vars

\* A confirmed deleteTask removed a task and left another.
C7_Witness ==
  /\ last.op = "deleteTask"
  /\ last.flag
  /\ Len(tasks) > 0
  /\ last.arg[1] \notin IdsOf(tasks)

\* C8: toggleDone(id) keeps the length and order of the list and every field
\* but done, flips done of the tasks with that id and of no other, and a
\* second toggleDone(id) gives back the list as it was before the first; with
\* the id not in the list no task changes.
C8_ToggleTwiceRestores ==
  [][ Called("toggleDone") =>
        LET id == last'.arg[1] IN
          /\ Len(tasks') = Len(tasks)
          /\ \A i \in 1..Len(tasks) :
               /\ SameButDone(tasks'[i], tasks[i])
               /\ tasks'[i].done = (IF tasks[i].id = id THEN ~tasks[i].done
                                    ELSE tasks[i].done)
          /\ TasksAfterToggle(tasks', id) = tasks
          /\ id \notin IdsOf(tasks) => tasks' = tasks ]_vars

\* toggleDone flipped one task of a list of two.
C8_Witness ==
  /\ last.op = "toggleDone"
  /\ last.flag
  /\ Len(tasks) = 2
  /\ \E i \in 1..2 : tasks[i].done

\* C9: when loadTasks gets the text a completed setItem call stored (of this
\* session or an earlier one), the list in memory is then the list that call
\* saved.  The list in memory is that of the mounted component: an unmounted
\* one has no state.
C9_SaveLoadRoundTrip ==
  [][ (LoadCompletes /\ mounted /\ loadRaw.from # Null)
        => tasks' = loadRaw.from[1] ]_vars

\* loadTasks brought back the list the earlier session saved.
C9_Witness ==
  /\ loadState = "done"
  /\ mounted
  /\ tasks = <<EarlierTask>>

\* What C10 calls a backend that is unavailable or returns no value, a
\* malformed payload or one that is not an array.
NothingToLoad(raw) == raw \in {Absent, Garbage, ObjectText}

\* C10 as claimed: loadTasks against such a backend results in an empty list
\* and no error.
C10_LoadFailureGivesEmptyList ==
  [][ (LoadCompletes /\ NothingToLoad(loadRaw.raw)) =>
        /\ tasks' = <<>>
        /\ ~uncaught' ]_vars

\* C10 amended: loadTasks against such a backend leaves the list as it was
\* (the initial empty list, or the tasks added since the start) and no error
\* escapes.
C10_LoadFailureKeepsList ==
  [][ (LoadCompletes /\ NothingToLoad(loadRaw.raw)) =>
        /\ tasks' = tasks
        /\ ~uncaught' ]_vars

\* loadTasks has finished after a task was added, and the backend holds
\* text that is not JSON: the task is still there.
C10_Witness ==
  /\ loadState = "done"
  /\ storage.raw = Garbage
  /\ last = NoCall
  /\ Len(tasks) = 1
  /\ ~uncaught

\* C11: once the component is unmounted no preview interval and no settle
\* timeout is pending, and no step changes selectedTask, tempSelected,
\* rolling or tasks.
C11_NothingAfterUnmount ==
  /\ [](~mounted => timers = {})
  /\ [][ ~mounted' => UNCHANGED <<selectedTask, tempSelected, rolling, tasks>> ]_vars

\* The component was unmounted while a roll was in flight, and the startup
\* load has finished since.
C11_Witness ==
  /\ ~mounted
  /\ rolling
  /\ intervalRef # 0
  /\ timeoutRef # 0
  /\ loadState = "done"

\* C12: with a backend whose writes succeed, once no further operation is
\* issued the stored text becomes the text of the list in memory and stays
\* that.
C12_EventuallyStored ==
  hasBackend => <>[](storage.raw = Stringify(tasks))

\* C13: a roll in flight on a mounted component ends: rolling becomes false
\* again unless the component is unmounted first.  The step in which a roll
\* settles writes one pick to selectedTask, sets rolling to false, clears
\* tempSelected and leaves no timer pending, so that no preview tick and no
\* second settle follows it.
C13_RollSettlesOnce ==
  /\ (rolling /\ mounted) ~> (~rolling \/ ~mounted)
  /\ [][ /\ (rolling /\ ~rolling') => \E t \in timers : Settles(t)
         /\ \A t \in timers : (Settles(t) /\ mounted) =>
              /\ selectedTask' # Null
              /\ ~rolling'
              /\ tempSelected' = Null
              /\ timers' = {} ]_vars

\* A roll that showed a preview has settled on a pick.
C13_Witness ==
  /\ mounted
  /\ ~rolling
  /\ selectedTask # Null
  /\ tempSelected = Null
  /\ timers = {}
  /\ timeoutRef # 0

\* C14: every task of the list in memory, and of every text written or
\* being written to the backend, has the priority High, Medium or Low.
C14_PriorityOfTheThree ==
  /\ \A i \in 1..Len(tasks) : tasks[i].priority \in {"High", "Medium", "Low"}
  /\ \A w \in 1..Len(writes) : \A i \in 1..Len(writes[w].value.items) :
       Member(writes[w].value.items[i], "priority") \in {"High", "Medium", "Low"}
  /\ storage.from # Null =>
       \A i \in 1..Len(storage.raw.items) :
         Member(storage.raw.items[i], "priority") \in {"High", "Medium", "Low"}

\* C14 on the lists no load brought in: the tasks addTask made.
C14_OfAddedTasks ==
  \A i \in 1..Len(tasks) :
    tasks[i].createdAt > 0 => tasks[i].priority \in {"High", "Medium", "Low"}

\* The step in which a setItem call in flight completes or rejects.
WriteCompletes == Len(writes') < Len(writes)

\* C15: neither the completion nor the rejection of a setItem call changes
\* the list in memory or the error shown, and no exception escapes; without
\* a backend no call is made and none escapes either.
C15_WriteOutcomeLeavesList ==
  /\ [][ WriteCompletes => (tasks' = tasks /\ error' = error /\ ~uncaught') ]_vars
  /\ [](~hasBackend => (writes = <<>> /\ ~uncaught))

\* The setItem call of the mount effect was rejected (nothing was ever
\* stored and it is in flight no more), and an addTask call made after that
\* put its task in the list.
C15_Witness ==
  /\ hasBackend
  /\ storage = Stored(Absent, Null, FALSE)
  /\ issued = 2
  /\ Len(writes) = 1
  /\ last.op = "addTask"
  /\ last.flag
  /\ Len(tasks) = 1
  /\ writes[1].from = tasks

\* a is b with some elements left out.
RECURSIVE IsSubsequence(_, _)
IsSubsequence(a, b) ==
  IF Len(a) = 0 THEN TRUE
  ELSE IF Len(b) = 0 THEN FALSE
  ELSE IF Head(a) = Head(b) THEN IsSubsequence(Tail(a), Tail(b))
  ELSE IsSubsequence(a, Tail(b))

\* C16: the list is always newest first (no task stands before one created
\* later); a successful addTask puts the new task at the head and leaves the
\* rest behind it as it was, toggleDone keeps every task at its place, and
\* deleteTask leaves the remaining tasks in their order.
C16_NewestFirst ==
  /\ [](\A i, j \in 1..Len(tasks) : i < j => tasks[i].createdAt >= tasks[j].createdAt)
  /\ [][ /\ (Called("addTask") /\ last'.flag) =>
              /\ Len(tasks') = Len(tasks) + 1
              /\ Tail(tasks') = tasks
              /\ tasks'[1].createdAt = now'
         /\ Called("toggleDone") =>
              /\ Len(tasks') = Len(tasks)
              /\ \A i \in 1..Len(tasks) : SameButDone(tasks'[i], tasks[i])
         /\ Called("deleteTask") => IsSubsequence(tasks', tasks) ]_vars

\* addTask put a task at the head of a list that held an older one.
C16_Witness ==
  /\ last.op = "addTask"
  /\ last.flag
  /\ Len(tasks) = 2
  /\ tasks[1].createdAt > tasks[2].createdAt
  /\ tasks[1].createdAt = now

\* C17: a selectedTask that is not null is a task of the list, with the
\* fields it has there, and is not done.
C17_SelectedIsIncomplete ==
  selectedTask # Null =>
    \E i \in 1..Len(tasks) : tasks[i] = selectedTask[1] /\ ~tasks[i].done

\* C17 read by id alone: a selectedTask that is not null has the id of a
\* task of the list that is not done.
C17_SelectedIdIsIncomplete ==
  selectedTask # Null =>
    \E i \in 1..Len(tasks) : tasks[i].id = selectedTask[1].id /\ ~tasks[i].done

\* The tasks of list that addTask made in this session (the stored lists of
\* the start hold only tasks created at reading 0).
AddedIn(list) == { i \in 1..Len(list) : list[i].createdAt > 0 }

\* C18: a task that addTask put in the list is still in it after every step
\* that is not a confirmed deleteTask of its id; the completion of the
\* startup load is such a step.
C18_AddedTaskStays ==
  [][ \A i \in AddedIn(tasks) :
        (Called("deleteTask") /\ last'.arg = Some(tasks[i].id))
        \/ \E j \in 1..Len(tasks') : SameButDone(tasks'[j], tasks[i]) ]_vars

\* C18 for the steps other than the completion of the startup load.
C18_AddedTaskStaysButForLoad ==
  [][ LoadCompletes \/
      \A i \in AddedIn(tasks) :
        (Called("deleteTask") /\ last'.arg = Some(tasks[i].id))
        \/ \E j \in 1..Len(tasks') : SameButDone(tasks'[j], tasks[i]) ]_vars

\* C19: while no handler has been called, a step never replaces the stored
\* text of the list an earlier session saved by the text of another list.
C19_StoredListSurvives ==
  [][ (storage.raw = Stringify(<<EarlierTask>>) /\ ops' = 0)
        => storage'.raw = storage.raw ]_vars

====
